---- MODULE Spec2Model ----
(***************************************************************************)
(* Route discovery of the warp UI: the useTokenRoutes query function       *)
(* (validate each configured token, fetch its remote routers, compute the  *)
(* RoutesMap) and the read-only route queries, from                        *)
(* src/src/features/tokens/routes.ts (specification Spec); and the calls   *)
(* of the token adapters of adapters/EvmTokenContractAdapter.ts and of     *)
(* CosmNativeTokenAdapter.ts (specification AdapterSpec); and one          *)
(* getAllRouters call of the EVM router adapter (specification             *)
(* RoutersSpec).                                                           *)
(***************************************************************************)
EXTENDS Integers, Sequences, FiniteSets, TLC

\* ---------------------------------------------------------------- bounds
\* number of tokens getAllTokens() returns, at most
MaxTokens == 2
\* number of remote routers the router contracts report in one run, at most
MaxRouters == 2

\* ------------------------------------------------------- value universes
ChainIds == {1, 2, 3}
Addresses == {"0xAa", "0xBb"}
LowerCaseAddresses == {"0xaa", "0xbb"}
BadAddress == "not-a-real-address"
DecimalsValues == {6, 18}
Symbols == {"USDC", "USDT"}

\* enum RouteType
BaseToSynthetic == "baseToSynthetic"
SyntheticToSynthetic == "syntheticToSynthetic"
SyntheticToBase == "syntheticToBase"
RouteType == {BaseToSynthetic, SyntheticToSynthetic, SyntheticToBase}

\* TokenType (only collateral is tested for) and ProtocolType
TokenType == {"collateral", "native"}
ProtocolType == {"ethereum", "sealevel", "cosmos"}
\* the protocol field of a token configuration is optional
NoProtocol == "undefined"

\* `protocol = ProtocolType.Ethereum` in the destructuring of a token
DefaultProtocol(p) == IF p = NoProtocol THEN "ethereum" ELSE p

\* getCaip2Id(protocol, chainId): the `${protocol}:${chainId}` identifier
getCaip2Id(protocol, chainId) == <<protocol, chainId>>

\* the bridging protocol's domain of every chain the multi provider knows
DomainIds == {101, 102, 103}
\* multiProvider.getChainId(domain)
getChainId(domain) == domain - 100

\* ------------------------------------------------------------ the tokens
\* The TokenMetadata records getAllTokens() may hold. The caip2Id of a token
\* is of the token's own protocol. Native tokens (never validated) come with
\* every token address on the chains that have base tokens; collateral
\* tokens come with every protocol.
BaseChainIds == {1, 2}

\* the decimals configured for the token of an address
ConfiguredDecimals(a) == IF a = "0xAa" THEN 18 ELSE 6

NativeTokens ==
    { [type |-> "native", caip2Id |-> getCaip2Id(DefaultProtocol(NoProtocol), c),
       address |-> a, tokenRouterAddress |-> "0xBb", symbol |-> "USDC",
       decimals |-> ConfiguredDecimals(a), protocol |-> NoProtocol] :
        c \in BaseChainIds, a \in Addresses }

CollateralTokens ==
    { [type |-> "collateral", caip2Id |-> getCaip2Id(DefaultProtocol(p), 1),
       address |-> "0xBb", tokenRouterAddress |-> "0xAa", symbol |-> "USDC",
       decimals |-> 18, protocol |-> p] :
        p \in ProtocolType \cup {NoProtocol} }

TokenMetadata == NativeTokens \cup CollateralTokens

\* two configured tokens never are the same token (chain and address)
SameToken(t, u) == t.caip2Id = u.caip2Id /\ t.address = u.address

RECURSIVE TokenListsOfLen(_)
TokenListsOfLen(n) ==
    IF n = 0 THEN { <<>> }
    ELSE { Append(l, t) : l \in TokenListsOfLen(n - 1), t \in TokenMetadata }

TokenLists ==
    { l \in UNION { TokenListsOfLen(n) : n \in 0..MaxTokens } :
        \A m, n \in DOMAIN l : m # n => ~SameToken(l[m], l[n]) }

\* ------------------------------------------------------- the environment
\* what the chain answers to wrappedToken() and getMetadata(): the values,
\* or a failed call
ChainAnswers ==
    { [ok |-> TRUE, decimals |-> d, symbol |-> s] : d \in DecimalsValues, s \in Symbols }
    \cup { [ok |-> FALSE, decimals |-> 0, symbol |-> ""] }

\* what a router contract reports: its domains (no domain twice), each with
\* the address routers(domain) resolves to
RECURSIVE RouterListsOfLen(_)
RouterListsOfLen(n) ==
    IF n = 0 THEN { <<>> }
    ELSE { Append(l, [domain |-> d, address |-> a]) :
             l \in RouterListsOfLen(n - 1), d \in DomainIds, a \in Addresses }

RouterLists ==
    { l \in UNION { RouterListsOfLen(n) : n \in 0..MaxRouters } :
        \A m, n \in DOMAIN l : m # n => l[m].domain # l[n].domain }

VARIABLES
    config,       \* getAllTokens(): the configured tokens, in order
    pc,           \* position of the query function
    i,            \* index in config of the token of the for-loop
    tokens,       \* the TokenMetadataWithHypTokens collected so far
    chainMeta,    \* what the last getMetadata() call returned
    tokenRoutes,  \* data of the query: the published RoutesMap
    error,        \* error of the query
    log,          \* the logger.info lines, in order
    found,        \* the last getTokenRoute call: its arguments and result
    clock,        \* new Date().getTime(): milliseconds
    adapter,      \* the token adapter constructed, with its readonly fields
    call,         \* the populateTransferTx call that awaits the inner message
    result,       \* what the last constructor or adapter method call ended in
    contract,     \* the router contract: what domains() and routers(domain) hold
    fanout,       \* the getAllRouters call: the calls issued and how they settled
    allRouters    \* what the getAllRouters call ended in

vars == <<config, pc, i, tokens, chainMeta, tokenRoutes, error, log, found,
          clock, adapter, call, result, contract, fanout, allRouters>>

\* the state of a getAllRouters call, which the route query and the calls of
\* the other adapter methods leave alone
discoveryVars == <<contract, fanout, allRouters>>

\* the state of the token adapters, which the route query leaves alone
adapterVars == <<clock, adapter, call, result>>

\* the state of the route query, which the token adapters leave alone
routeVars == <<config, pc, i, tokens, chainMeta, tokenRoutes, error, log, found>>

\* ------------------------------------------------- computeTokenRoutes
\* getChainsFromTokens: the chains of the tokens and of their hypTokens
getChainsFromTokens(toks) ==
    { toks[n].caip2Id : n \in DOMAIN toks } \cup
    UNION { { toks[n].hypTokens[j].caip2Id : j \in DOMAIN toks[n].hypTokens } :
              n \in DOMAIN toks }

\* InstantiateMap without `if (origin === dest) continue`
InstantiateMap_AllPairs(allChainIds) ==
    [origin \in allChainIds |-> [dest \in allChainIds |-> <<>>]]

\* "Instantiate map structure": an empty list for every ordered pair of
\* distinct chains, and no entry for a chain paired with itself
InstantiateMap(allChainIds) ==
    [origin \in allChainIds |-> [dest \in allChainIds \ {origin} |-> <<>>]]

\* commonRouteProps with the token address taken for the router address
commonRouteProps_TokenAsRouter(token) ==
    [baseCaip2Id |-> token.caip2Id,
     baseTokenAddress |-> token.address,
     tokenRouterAddress |-> token.address]

\* commonRouteProps of a token
commonRouteProps(token) ==
    [baseCaip2Id |-> token.caip2Id,
     baseTokenAddress |-> token.address,
     tokenRouterAddress |-> token.tokenRouterAddress]

\* a Route: { type, ...commonRouteProps, originTokenAddress, destTokenAddress, decimals }
MakeRoute(type, common, originTokenAddress, destTokenAddress, decimals) ==
    [type |-> type,
     baseCaip2Id |-> common.baseCaip2Id,
     baseTokenAddress |-> common.baseTokenAddress,
     tokenRouterAddress |-> common.tokenRouterAddress,
     originTokenAddress |-> originTokenAddress,
     destTokenAddress |-> destTokenAddress,
     decimals |-> decimals]

\* the route pushed to tokenRoutes[baseCaip2Id][syntheticCaip2Id]
BaseToSyntheticRoute(token, hypToken) ==
    MakeRoute(BaseToSynthetic, commonRouteProps(token),
              token.tokenRouterAddress, hypToken.address, token.decimals)

\* SyntheticToBaseRoute ending where it starts
SyntheticToBaseRoute_SameAddress(token, hypToken) ==
    MakeRoute(SyntheticToBase, commonRouteProps(token),
              hypToken.address, hypToken.address, token.decimals)

\* SyntheticToBaseRoute with the addresses of the BaseToSynthetic route
SyntheticToBaseRoute_NotSwapped(token, hypToken) ==
    MakeRoute(SyntheticToBase, commonRouteProps(token),
              token.tokenRouterAddress, hypToken.address, token.decimals)

\* the route pushed to tokenRoutes[syntheticCaip2Id][baseCaip2Id]
SyntheticToBaseRoute(token, hypToken) ==
    MakeRoute(SyntheticToBase, commonRouteProps(token),
              hypToken.address, token.tokenRouterAddress, token.decimals)

\* SyntheticToSyntheticRoute with the usual 18 decimals for the token's
SyntheticToSyntheticRoute_DefaultDecimals(token, fromHypToken, toHypToken) ==
    MakeRoute(SyntheticToSynthetic, commonRouteProps(token),
              fromHypToken.address, toHypToken.address, 18)

\* the route pushed for a pair of hypTokens, from one to the other
SyntheticToSyntheticRoute(token, fromHypToken, toHypToken) ==
    MakeRoute(SyntheticToSynthetic, commonRouteProps(token),
              fromHypToken.address, toHypToken.address, token.decimals)

\* tokenRoutes[origin][dest].push(route). The state of the computation is
\* [ok, map]: reading push of an absent entry throws a TypeError, after
\* which nothing more is done.
Push(st, origin, dest, route) ==
    IF ~st.ok THEN st
    ELSE IF origin \notin DOMAIN st.map \/ dest \notin DOMAIN st.map[origin]
         THEN [ok |-> FALSE, map |-> st.map]
         ELSE [ok |-> TRUE, map |-> [st.map EXCEPT ![origin][dest] = Append(@, route)]]

\* whether the inner loop skips otherHypToken ("same hypToken as parent loop")
SkipOther(hypToken, otherHypToken) == otherHypToken.caip2Id = hypToken.caip2Id

\* one iteration of the inner loop over token.hypTokens
OtherStep(st, token, hypToken, otherHypToken) ==
    IF SkipOther(hypToken, otherHypToken) THEN st
    ELSE Push(Push(st, hypToken.caip2Id, otherHypToken.caip2Id,
                   SyntheticToSyntheticRoute(token, hypToken, otherHypToken)),
              otherHypToken.caip2Id, hypToken.caip2Id,
              SyntheticToSyntheticRoute(token, otherHypToken, hypToken))

RECURSIVE OtherLoop(_, _, _, _)
OtherLoop(st, token, hypToken, k) ==
    IF k > Len(token.hypTokens) THEN st
    ELSE OtherLoop(OtherStep(st, token, hypToken, token.hypTokens[k]),
                   token, hypToken, k + 1)

\* one iteration of the loop over token.hypTokens
HypStep(st, token, hypToken) ==
    OtherLoop(Push(Push(st, token.caip2Id, hypToken.caip2Id,
                        BaseToSyntheticRoute(token, hypToken)),
                   hypToken.caip2Id, token.caip2Id,
                   SyntheticToBaseRoute(token, hypToken)),
              token, hypToken, 1)

RECURSIVE HypLoop(_, _, _)
HypLoop(st, token, j) ==
    IF j > Len(token.hypTokens) THEN st
    ELSE HypLoop(HypStep(st, token, token.hypTokens[j]), token, j + 1)

RECURSIVE TokenLoop(_, _, _)
TokenLoop(st, toks, n) ==
    IF n > Len(toks) THEN st
    ELSE TokenLoop(HypLoop(st, toks[n], 1), toks, n + 1)

\* computeTokenRoutes(tokens): [ok |-> TRUE, map |-> the RoutesMap], or
\* ok = FALSE when it throws
computeTokenRoutes(toks) ==
    TokenLoop([ok |-> TRUE, map |-> InstantiateMap(getChainsFromTokens(toks))], toks, 1)

\* ------------------------------------------------------ the route queries
\* isValidEvmAddress of utils/addresses
isValidEvmAddress(a) == a \in Addresses \cup LowerCaseAddresses

\* the checksummed form of a valid address
NormalizeAddress(a) ==
    CASE a = "0xaa" -> "0xAa"
      [] a = "0xbb" -> "0xBb"
      [] OTHER -> a

\* areAddressesEqual of utils/addresses
areAddressesEqual(a1, a2) == NormalizeAddress(a1) = NormalizeAddress(a2)

\* getTokenRoutes: tokenRoutes[origin]?.[destination] || []
getTokenRoutes(originCaip2Id, destinationCaip2Id, routes) ==
    IF originCaip2Id \in DOMAIN routes /\ destinationCaip2Id \in DOMAIN routes[originCaip2Id]
    THEN routes[originCaip2Id][destinationCaip2Id]
    ELSE <<>>

\* the null of getTokenRoute
NullRoute == [type |-> "null"]

\* Array.prototype.find: the first element that satisfies the test
RECURSIVE FindRoute(_, _, _)
FindRoute(list, baseTokenAddress, k) ==
    IF k > Len(list) THEN NullRoute
    ELSE IF areAddressesEqual(baseTokenAddress, list[k].baseTokenAddress) THEN list[k]
    ELSE FindRoute(list, baseTokenAddress, k + 1)

\* getTokenRoute looking in the routes of the opposite direction
getTokenRoute_Reversed(originCaip2Id, destinationCaip2Id, baseTokenAddress, routes) ==
    IF ~isValidEvmAddress(baseTokenAddress) THEN NullRoute
    ELSE FindRoute(getTokenRoutes(destinationCaip2Id, originCaip2Id, routes),
                   baseTokenAddress, 1)

\* getTokenRoute
getTokenRoute(originCaip2Id, destinationCaip2Id, baseTokenAddress, routes) ==
    IF ~isValidEvmAddress(baseTokenAddress) THEN NullRoute
    ELSE FindRoute(getTokenRoutes(originCaip2Id, destinationCaip2Id, routes),
                   baseTokenAddress, 1)

\* ------------------------------------------------ validateTokenMetadata
NoError ==
    [kind |-> "none", reading |-> "", configField |-> "", chainField |-> "", configured |-> "", onChain |-> ""]

\* `Token config decimals ${decimals} does not match contract decimals ${decimalsOnChain}`
DecimalsError(decimals, decimalsOnChain) ==
    [kind |-> "Error", reading |-> "", configField |-> "decimals", chainField |-> "decimals",
     configured |-> ToString(decimals), onChain |-> ToString(decimalsOnChain)]

\* `Token config symbol ${symbol} does not match contract decimals ${symbolOnChain}`
SymbolError(symbol, symbolOnChain) ==
    [kind |-> "Error", reading |-> "", configField |-> "symbol", chainField |-> "decimals",
     configured |-> symbol, onChain |-> symbolOnChain]

\* tokenAdapter!.getMetadata() with tokenAdapter never assigned
AdapterTypeError ==
    [kind |-> "TypeError", reading |-> "getMetadata", configField |-> "", chainField |-> "", configured |-> "", onChain |-> ""]

\* tokenRoutes[origin][dest].push(...) with no list at tokenRoutes[origin][dest]
PushTypeError ==
    [kind |-> "TypeError", reading |-> "push", configField |-> "", chainField |-> "",
     configured |-> "", onChain |-> ""]

\* a rejected on-chain call, surfaced as it is
RpcError ==
    [kind |-> "RpcError", reading |-> "", configField |-> "", chainField |-> "", configured |-> "", onChain |-> ""]

\* routers(domain) rejects inside getAllRouters: Promise.all rejects with it
RouterError(domain) ==
    [kind |-> "RpcError", reading |-> "routers", configField |-> "", chainField |-> "",
     configured |-> "", onChain |-> ToString(domain)]

LogLine(msg, token) == [msg |-> msg, symbol |-> token.symbol, caip2Id |-> token.caip2Id]

Unread == [read |-> FALSE, decimals |-> 0, symbol |-> ""]

\* CompareMetadata without the comparison of the decimals
CompareMetadata_SymbolOnly(token, answer) ==
    IF token.symbol # answer.symbol THEN SymbolError(token.symbol, answer.symbol)
    ELSE NoError

\* the comparisons of the metadata read from the chain with the configuration
CompareMetadata(token, answer) ==
    IF token.decimals # answer.decimals THEN DecimalsError(token.decimals, answer.decimals)
    ELSE IF token.symbol # answer.symbol THEN SymbolError(token.symbol, answer.symbol)
    ELSE NoError

\* validateTokenMetadata(token), the chain answering `answer` when asked:
\* the error thrown (NoError when it returns), the lines logged and the
\* metadata it read
validateTokenMetadata(token, answer) ==
    IF token.type # "collateral"
    THEN [error |-> NoError, logged |-> <<>>, meta |-> Unread]
    ELSE LET logged == <<LogLine("Validating token", token)>> IN
         IF DefaultProtocol(token.protocol) = "ethereum"
         THEN IF ~answer.ok
              THEN [error |-> RpcError, logged |-> logged, meta |-> Unread]
              ELSE [error |-> CompareMetadata(token, answer), logged |-> logged,
                    meta |-> [read |-> TRUE, decimals |-> answer.decimals,
                              symbol |-> answer.symbol]]
         ELSE IF DefaultProtocol(token.protocol) = "sealevel"
         THEN [error |-> NoError, logged |-> logged, meta |-> Unread]
         ELSE [error |-> AdapterTypeError, logged |-> logged, meta |-> Unread]

\* ------------------------------------------------- fetchRemoteHypTokens
\* remoteRouters.map(...): the hypToken of a router entry
HypTokenOf(protocol, router) ==
    [address |-> router.address,
     caip2Id |-> getCaip2Id(protocol, getChainId(router.domain))]

\* { ...originToken, hypTokens }
WithHypTokens(originToken, remoteRouters) ==
    [type |-> originToken.type, caip2Id |-> originToken.caip2Id,
     address |-> originToken.address,
     tokenRouterAddress |-> originToken.tokenRouterAddress,
     symbol |-> originToken.symbol, decimals |-> originToken.decimals,
     protocol |-> originToken.protocol,
     hypTokens |-> [k \in DOMAIN remoteRouters |->
                      HypTokenOf(DefaultProtocol(originToken.protocol), remoteRouters[k])]]

\* ------------------------------------------------------------ the actions
\* the number of router entries found so far
RECURSIVE RoutersFoundUpTo(_, _)
RoutersFoundUpTo(toks, n) ==
    IF n = 0 THEN 0 ELSE RoutersFoundUpTo(toks, n - 1) + Len(toks[n].hypTokens)

RoutersFound(toks) == RoutersFoundUpTo(toks, Len(toks))

NotFound == [asked |-> FALSE, origin |-> <<>>, destination |-> <<>>,
             baseTokenAddress |-> "", route |-> NullRoute]

\* no adapter constructed, no call made
NoAdapter == [kind |-> "none"]
NoCall == [active |-> FALSE]
NoResult == [op |-> "none"]

\* no router contract looked at, getAllRouters not called
NoContract == [domains |-> <<>>]
NoFanout == [state |-> "idle", issued |-> <<>>, settled |-> <<>>, routers |-> <<>>]
NoRouters == [status |-> "none", entries |-> <<>>]

Init ==
    /\ clock = 0
    /\ adapter = NoAdapter
    /\ call = NoCall
    /\ result = NoResult
    /\ contract = NoContract
    /\ fanout = NoFanout
    /\ allRouters = NoRouters
    /\ config \in TokenLists
    /\ pc = "start"
    /\ i = 1
    /\ tokens = <<>>
    /\ chainMeta = Unread
    /\ tokenRoutes = InstantiateMap({})
    /\ error = NoError
    /\ log = <<>>
    /\ found = NotFound

\* LoopAt leaving the loop one token early
LoopAt_OneTokenShort(n) == IF n >= Len(config) THEN "compute" ELSE "validate"

\* where the for-loop over getAllTokens() goes with index n
LoopAt(n) == IF n > Len(config) THEN "compute" ELSE "validate"

\* the query function starts
StartQuery ==
    /\ pc = "start"
    /\ log' = Append(log, [msg |-> "Searching for token routes", symbol |-> "", caip2Id |-> <<>>])
    /\ pc' = LoopAt(1)
    /\ UNCHANGED <<adapterVars, discoveryVars, config, i, tokens, chainMeta, tokenRoutes, error, found>>

\* validateTokenMetadata(token) without the await: the loop goes on to the
\* discovery whatever becomes of the validation
ValidateTokenMetadata_NotAwaited ==
    /\ pc = "validate"
    /\ \E answer \in ChainAnswers :
         LET out == validateTokenMetadata(config[i], answer) IN
         /\ log' = log \o out.logged
         /\ chainMeta' = out.meta
         /\ error' = out.error
         /\ pc' = "fetch"
    /\ UNCHANGED <<adapterVars, discoveryVars, config, i, tokens, tokenRoutes, found>>

\* await validateTokenMetadata(token)
ValidateTokenMetadata ==
    /\ pc = "validate"
    /\ \E answer \in ChainAnswers :
         LET out == validateTokenMetadata(config[i], answer) IN
         /\ log' = log \o out.logged
         /\ chainMeta' = out.meta
         /\ error' = out.error
         /\ pc' = IF out.error.kind = "none" THEN "fetch" ELSE "failed"
    /\ UNCHANGED <<adapterVars, discoveryVars, config, i, tokens, tokenRoutes, found>>

\* await fetchRemoteHypTokens(token); tokens.push(tokenWithHypTokens)
FetchRemoteHypTokens ==
    /\ pc = "fetch"
    /\ \E remoteRouters \in RouterLists :
         /\ RoutersFound(tokens) + Len(remoteRouters) <= MaxRouters
         /\ tokens' = Append(tokens, WithHypTokens(config[i], remoteRouters))
         /\ log' = log \o <<LogLine("Fetching remote tokens", config[i]),
                            LogLine("Router addresses found", config[i])>>
    /\ i' = i + 1
    /\ pc' = LoopAt(i + 1)
    /\ UNCHANGED <<adapterVars, discoveryVars, config, chainMeta, tokenRoutes, error, found>>

\* getAllRouters() rejects: domains() rejects, or routers(domain) rejects
\* for one of the domains
FetchRemoteHypTokensFails ==
    /\ pc = "fetch"
    /\ log' = Append(log, LogLine("Fetching remote tokens", config[i]))
    /\ error' \in {RpcError} \cup { RouterError(domain) : domain \in DomainIds }
    /\ pc' = "failed"
    /\ UNCHANGED <<adapterVars, discoveryVars, config, i, tokens, chainMeta, tokenRoutes, found>>

\* return computeTokenRoutes(tokens)
ComputeTokenRoutes ==
    /\ pc = "compute"
    /\ LET out == computeTokenRoutes(tokens) IN
         IF out.ok
         THEN /\ tokenRoutes' = out.map
              /\ pc' = "published"
              /\ error' = error
         ELSE /\ tokenRoutes' = tokenRoutes
              /\ pc' = "failed"
              /\ error' = PushTypeError
    /\ UNCHANGED <<adapterVars, discoveryVars, config, i, tokens, chainMeta, log, found>>

\* the chains and addresses the application asks routes for
QueryChains == { getCaip2Id("ethereum", c) : c \in ChainIds }
QueryAddresses == {"0xAa", "0xbb", BadAddress}

\* the application asks getTokenRoute(origin, destination, baseTokenAddress,
\* tokenRoutes) of the published map
GetTokenRoute ==
    /\ pc = "published"
    /\ ~found.asked
    /\ \E o \in QueryChains, d \in QueryChains, a \in QueryAddresses :
         found' = [asked |-> TRUE, origin |-> o, destination |-> d, baseTokenAddress |-> a,
                   route |-> getTokenRoute(o, d, a, tokenRoutes)]
    /\ UNCHANGED <<adapterVars, discoveryVars, config, pc, i, tokens, chainMeta, tokenRoutes, error, log>>

Next ==
    \/ StartQuery
    \/ ValidateTokenMetadata
    \/ FetchRemoteHypTokens
    \/ FetchRemoteHypTokensFails
    \/ ComputeTokenRoutes
    \/ GetTokenRoute

Spec == Init /\ [][Next]_vars

\* ------------------------------------------------------------ properties
\* a RoutesMap has been returned by computeTokenRoutes (getTokenRoute leaves
\* the map as it is, so the map is looked at before any call of it)
Published == pc = "published" /\ ~found.asked

\* the places <<origin, destination, index>> of the routes of the published map
Places ==
    UNION { UNION { { <<o, d, k>> : k \in DOMAIN tokenRoutes[o][d] } :
                      d \in DOMAIN tokenRoutes[o] } :
              o \in DOMAIN tokenRoutes }

RouteAt(p) == tokenRoutes[p[1]][p[2]][p[3]]

\* the route was derived from the base token
OfBaseToken(route, token) ==
    route.baseCaip2Id = token.caip2Id /\ route.baseTokenAddress = token.address

\* the places of the routes of a type derived from the n-th token
PlacesOf(n, type) ==
    { p \in Places : RouteAt(p).type = type /\ OfBaseToken(RouteAt(p), tokens[n]) }

\* C1: for every base token with N connected tokens on N distinct chains,
\* none of them the base chain, the returned map holds exactly N*(N-1)
\* SyntheticToSynthetic edges of that base token.
C1_SiblingCompleteness ==
    Published =>
        \A n \in DOMAIN tokens :
            Cardinality(PlacesOf(n, SyntheticToSynthetic)) =
                Len(tokens[n].hypTokens) * (Len(tokens[n].hypTokens) - 1)

\* C2, as claimed: no Route of a returned map has originTokenAddress equal
\* to destTokenAddress.
C2_NoEqualAddresses ==
    Published =>
        \A p \in Places : RouteAt(p).originTokenAddress # RouteAt(p).destTokenAddress

\* the tokens of the mesh of a base token, each a chain and an address: the
\* base token's router and the connected tokens
MeshTokens(token) ==
    { <<token.caip2Id, token.tokenRouterAddress>> } \cup
    { <<token.hypTokens[j].caip2Id, token.hypTokens[j].address>> :
        j \in DOMAIN token.hypTokens }

\* C2, amended: no Route of a returned map has the same token as origin and
\* as destination: every Route of routes[X][Y] has X # Y and goes from the
\* token on chain X to the token on chain Y of its base token's mesh, so its
\* two addresses are equal only when those two tokens have the same address.
C2_NoSelfLoops ==
    Published =>
        \A p \in Places :
            /\ p[1] # p[2]
            /\ \E n \in DOMAIN tokens :
                 /\ OfBaseToken(RouteAt(p), tokens[n])
                 /\ <<p[1], RouteAt(p).originTokenAddress>> \in MeshTokens(tokens[n])
                 /\ <<p[2], RouteAt(p).destTokenAddress>> \in MeshTokens(tokens[n])

\* a returned map with a Route between two tokens of the same address
C2_Witness ==
    /\ Published
    /\ \E p \in Places : RouteAt(p).originTokenAddress = RouteAt(p).destTokenAddress

\* C3: for each BaseToSynthetic edge E of routes[X][Y] there is a
\* SyntheticToBase edge in routes[Y][X] with the token addresses of E
\* swapped and the baseTokenAddress, tokenRouterAddress and decimals of E.
C3_Symmetry ==
    Published =>
        \A p \in Places :
            RouteAt(p).type = BaseToSynthetic =>
                \E q \in Places :
                    /\ q[1] = p[2] /\ q[2] = p[1]
                    /\ RouteAt(q).type = SyntheticToBase
                    /\ RouteAt(q).originTokenAddress = RouteAt(p).destTokenAddress
                    /\ RouteAt(q).destTokenAddress = RouteAt(p).originTokenAddress
                    /\ RouteAt(q).baseTokenAddress = RouteAt(p).baseTokenAddress
                    /\ RouteAt(q).tokenRouterAddress = RouteAt(p).tokenRouterAddress
                    /\ RouteAt(q).decimals = RouteAt(p).decimals

\* a returned map with a BaseToSynthetic edge whose two addresses differ
C3_Witness ==
    /\ Published
    /\ \E p \in Places :
         /\ RouteAt(p).type = BaseToSynthetic
         /\ RouteAt(p).originTokenAddress # RouteAt(p).destTokenAddress

\* C4: for a base token on chain A and each of its connected tokens on a
\* chain B # A, routes[A][B] holds exactly one BaseToSynthetic edge of that
\* base token and routes[B][A] exactly one SyntheticToBase edge of it; and
\* no chain X of the map has an entry routes[X][X].
C4_BaseEdges ==
    Published =>
        /\ \A n \in DOMAIN tokens : \A j \in DOMAIN tokens[n].hypTokens :
             LET A == tokens[n].caip2Id
                 B == tokens[n].hypTokens[j].caip2Id
             IN  B # A =>
                 /\ Cardinality({ p \in PlacesOf(n, BaseToSynthetic) :
                                    p[1] = A /\ p[2] = B }) = 1
                 /\ Cardinality({ p \in PlacesOf(n, SyntheticToBase) :
                                    p[1] = B /\ p[2] = A }) = 1
        /\ \A X \in DOMAIN tokenRoutes : X \notin DOMAIN tokenRoutes[X]

\* a returned map of two base tokens that have a connected token each
C4_Witness ==
    /\ Published
    /\ Len(tokens) = 2
    /\ \A n \in DOMAIN tokens : Len(tokens[n].hypTokens) = 1

\* C5, as claimed: every edge whose origin is a synthetic token carries as
\* tokenRouterAddress the address of the synthetic token it starts from.
C5_OriginSideRouter ==
    Published =>
        \A p \in Places :
            RouteAt(p).type \in {SyntheticToBase, SyntheticToSynthetic} =>
                RouteAt(p).tokenRouterAddress = RouteAt(p).originTokenAddress

\* C5, amended: every edge, also one whose origin is a synthetic token,
\* carries as tokenRouterAddress the router address of its base token; the
\* address of the synthetic token it starts from is its originTokenAddress.
C5_BaseRouterOnEveryEdge ==
    Published =>
        \A p \in Places :
            \E n \in DOMAIN tokens :
                /\ OfBaseToken(RouteAt(p), tokens[n])
                /\ RouteAt(p).tokenRouterAddress = tokens[n].tokenRouterAddress
                /\ RouteAt(p).type \in {SyntheticToBase, SyntheticToSynthetic} =>
                     \E j \in DOMAIN tokens[n].hypTokens :
                         /\ tokens[n].hypTokens[j].caip2Id = p[1]
                         /\ tokens[n].hypTokens[j].address = RouteAt(p).originTokenAddress

\* a returned map with an edge from a synthetic token whose address is not
\* the router address of the base token
C5_Witness ==
    /\ Published
    /\ \E p \in Places :
         /\ RouteAt(p).type \in {SyntheticToBase, SyntheticToSynthetic}
         /\ RouteAt(p).tokenRouterAddress # RouteAt(p).originTokenAddress

\* C6: all edges derived from the same base token carry the same decimals,
\* the decimals configured for that base token.
C6_DecimalsConsistency ==
    Published =>
        \A p \in Places :
            /\ \E n \in DOMAIN tokens : OfBaseToken(RouteAt(p), tokens[n])
            /\ \A n \in DOMAIN tokens :
                 OfBaseToken(RouteAt(p), tokens[n]) => RouteAt(p).decimals = tokens[n].decimals
            /\ \A q \in Places :
                 ( /\ RouteAt(q).baseCaip2Id = RouteAt(p).baseCaip2Id
                   /\ RouteAt(q).baseTokenAddress = RouteAt(p).baseTokenAddress )
                 => RouteAt(q).decimals = RouteAt(p).decimals

\* a returned map with edges of the three types derived from a base token
\* of 6 decimals
C6_Witness ==
    /\ Published
    /\ \E n \in DOMAIN tokens :
         /\ tokens[n].decimals = 6
         /\ \A type \in RouteType : PlacesOf(n, type) # {}

\* the routes of a pair of chains, as getTokenRoute sees them
RoutesOfPair(origin, destination) ==
    IF origin \in DOMAIN tokenRoutes /\ destination \in DOMAIN tokenRoutes[origin]
    THEN tokenRoutes[origin][destination]
    ELSE <<>>

\* the k-th route of the pair asked for is of the base token asked for
Matches(k) ==
    areAddressesEqual(found.baseTokenAddress,
                      RoutesOfPair(found.origin, found.destination)[k].baseTokenAddress)

\* C7: getTokenRoute returns the first Route, in the order of
\* map[origin][destination], whose baseTokenAddress equals the given address;
\* it returns null when there is none, when the pair of chains is absent from
\* the map, and when the given address is no valid address.
C7_FirstMatch ==
    found.asked =>
        LET list == RoutesOfPair(found.origin, found.destination) IN
        IF isValidEvmAddress(found.baseTokenAddress) /\ \E k \in DOMAIN list : Matches(k)
        THEN \E k \in DOMAIN list :
                /\ Matches(k)
                /\ \A m \in 1..(k - 1) : ~Matches(m)
                /\ found.route = list[k]
        ELSE found.route = NullRoute

\* getTokenRoute was asked for a base token that has two different routes
\* for the pair of chains
C7_Witness ==
    /\ found.asked
    /\ found.route # NullRoute
    /\ \E k, m \in DOMAIN RoutesOfPair(found.origin, found.destination) :
         /\ Matches(k) /\ Matches(m)
         /\ RoutesOfPair(found.origin, found.destination)[k] #
              RoutesOfPair(found.origin, found.destination)[m]

\* C8: a mismatch found by validateTokenMetadata fails with an error that
\* names the mismatching field, for the configured and for the on-chain
\* value alike, and gives both values; a symbol mismatch is reported as a
\* symbol mismatch.
C8_MismatchNamesField ==
    error.kind = "Error" =>
        /\ chainMeta.read
        /\ error.configField = error.chainField
        /\ \/ /\ error.configField = "decimals"
              /\ config[i].decimals # chainMeta.decimals
              /\ error.configured = ToString(config[i].decimals)
              /\ error.onChain = ToString(chainMeta.decimals)
           \/ /\ error.configField = "symbol"
              /\ config[i].symbol # chainMeta.symbol
              /\ error.configured = config[i].symbol
              /\ error.onChain = chainMeta.symbol

\* C9: validateTokenMetadata of a collateral token reads the metadata of the
\* chain (for the protocol it has an adapter for, unless the call fails);
\* when the decimals read differ from the configured ones it fails with an
\* error giving both values, and when decimals and symbol both are the
\* configured ones it returns without error, leaving all but the log alone.
C9_DecimalsValidation ==
    [][ (pc = "validate" /\ config[i].type = "collateral") =>
          /\ DefaultProtocol(config[i].protocol) = "ethereum" =>
               (chainMeta'.read \/ error'.kind = "RpcError")
          /\ (chainMeta'.read /\ config[i].decimals # chainMeta'.decimals) =>
               /\ pc' = "failed"
               /\ error'.kind = "Error"
               /\ error'.configField = "decimals"
               /\ error'.configured = ToString(config[i].decimals)
               /\ error'.onChain = ToString(chainMeta'.decimals)
          /\ ( /\ chainMeta'.read
               /\ config[i].decimals = chainMeta'.decimals
               /\ config[i].symbol = chainMeta'.symbol ) =>
               /\ pc' = "fetch"
               /\ error'.kind = "none"
               /\ UNCHANGED <<config, i, tokens, tokenRoutes, found>>
      ]_vars

\* validation has failed on configured decimals 18 with 6 on the chain
C9_Witness ==
    /\ pc = "failed"
    /\ config[i].type = "collateral"
    /\ chainMeta.read
    /\ error.configField = "decimals"
    /\ error.configured = "18"
    /\ error.onChain = "6"

\* C10: validateTokenMetadata of a collateral token of a protocol other
\* than the EVM one does not fail, and records that the validation of the
\* token is deferred.
C10_UnsupportedDeferred ==
    ( /\ pc \in {"fetch", "failed"}
      /\ i \in DOMAIN config
      /\ config[i].type = "collateral"
      /\ DefaultProtocol(config[i].protocol) # "ethereum" ) =>
        /\ error.reading # "getMetadata"
        /\ \E k \in DOMAIN log :
             /\ log[k].msg = "unsupported, validation deferred"
             /\ log[k].caip2Id = config[i].caip2Id

\* the query function has thrown: useQuery holds the error, and with
\* retry: false the query function is not run again
Failed == pc = "failed"

\* C11: a metadata mismatch found for one token aborts the validation of
\* that token only: the tokens after it in the configuration are still
\* validated and discovered, the pipeline does not end with them unprocessed.
C11_MismatchAbortsThatTokenOnly ==
    (error.kind = "Error" /\ i < Len(config)) => ~Failed

\* C12: when routers(domain) fails for one domain during the discovery for a
\* base token, the discovery is aborted for that base token only: the
\* pipeline does not end with the tokens after it undiscovered.
C12_ResolveFailureAbortsThatTokenOnly ==
    (error.reading = "routers" /\ i < Len(config)) => ~Failed

\* C13: a RoutesMap is published only by computeTokenRoutes finishing after
\* every configured token, in order, was validated and discovered, and it is
\* the whole map of these tokens, left as it is once published; when the
\* validation or the discovery of a token fails no map is published, the
\* error thrown is the result, and no step follows, none is retried.
C13_AllOrNothing ==
    [][ /\ ~Failed
        /\ pc' # "published" => tokenRoutes' = InstantiateMap({})
        /\ Failed' =>
             /\ error'.kind # "none"
             /\ pc = "validate" =>
                  \E answer \in ChainAnswers :
                      error' = validateTokenMetadata(config[i], answer).error
             /\ pc = "fetch" => error'.kind = "RpcError"
        /\ pc' = "published" =>
             IF pc = "published" THEN UNCHANGED <<tokenRoutes, tokens, error>>
             ELSE /\ pc = "compute"
                  /\ error'.kind = "none"
                  /\ Len(tokens') = Len(config)
                  /\ \A n \in DOMAIN config :
                       \E remoteRouters \in RouterLists :
                           tokens'[n] = WithHypTokens(config[n], remoteRouters)
                  /\ computeTokenRoutes(tokens').ok
                  /\ tokenRoutes' = computeTokenRoutes(tokens').map
      ]_vars

\* the discovery of the second token has failed after the first token was
\* discovered with a connected token, and no map is there
C13_Witness ==
    /\ Failed
    /\ i = 2
    /\ Len(tokens) = 1
    /\ Len(tokens[1].hypTokens) = 1
    /\ error.reading = "routers"
    /\ tokenRoutes = InstantiateMap({})

\* the lines a step adds to the log
Logged == [k \in 1..(Len(log') - Len(log)) |-> log'[Len(log) + k]]

\* C14: the tokens are processed one after the other in the order of the
\* configuration: the validation of a token starts only when every token
\* before it was validated and discovered, the discovery of a token only
\* when its validation has returned, and each step of the loop calls the
\* chain for the token of the loop only.
C14_StrictlySequential ==
    [][ /\ pc' = "validate" =>
             \/ pc = "start" /\ i' = 1 /\ tokens' = <<>>
             \/ pc = "fetch" /\ i' = i + 1 /\ Len(tokens') = i
        /\ pc' = "fetch" =>
             /\ pc = "validate" /\ i' = i
             /\ error'.kind = "none"
             /\ Len(tokens') = i - 1
        /\ pc \in {"validate", "fetch"} =>
             /\ Len(tokens) = i - 1
             /\ \A k \in DOMAIN Logged :
                    /\ Logged[k].symbol = config[i].symbol
                    /\ Logged[k].caip2Id = config[i].caip2Id
        /\ pc = "fetch" /\ ~Failed' =>
             /\ tokens' = Append(tokens, tokens'[i])
             /\ SameToken(tokens'[i], config[i])
      ]_vars

\* the discovery of the second token, a collateral token whose metadata was
\* read from the chain, has started with the first token discovered
C14_Witness ==
    /\ pc = "fetch"
    /\ i = 2
    /\ config[2].type = "collateral"
    /\ chainMeta.read
    /\ Len(tokens) = 1

\* =========================================================== token adapters
\* ------------------------------------------------------------ JS values
\* a property or parameter that is not there
Undefined == "<undefined>"

\* !v of a string that may be missing
Falsy(v) == v \in {Undefined, ""}

\* amountOrId: string | number, a string or a number literal with its
\* characters
AmountOf(type, chars) == [type |-> type, chars |-> chars]

Amounts ==
    { AmountOf("string", <<"1", "0", "0">>), AmountOf("string", <<"0", "x", "1", "0">>),
      AmountOf("string", <<"1", ".", "5">>), AmountOf("string", <<>>),
      AmountOf("number", <<"1", "0", "0">>), AmountOf("number", <<"1", ".", "5">>) }

\* amountOrId.toString()
RECURSIVE Concat(_)
Concat(chars) == IF chars = <<>> THEN "" ELSE Head(chars) \o Concat(Tail(chars))

toString(amount) == Concat(amount.chars)

\* the digits of the bases 10 and 16
Digits == <<"0", "1", "2", "3", "4", "5", "6", "7", "8", "9", "a", "b", "c", "d", "e", "f">>

IsDigit(c, base) == \E k \in 1..base : Digits[k] = c

DigitValue(c) == (CHOOSE k \in DOMAIN Digits : Digits[k] = c) - 1

RECURSIVE ParseDigits(_, _, _)
ParseDigits(chars, base, acc) ==
    IF chars = <<>> THEN acc
    ELSE ParseDigits(Tail(chars), base, acc * base + DigitValue(Head(chars)))

\* /^[0-9]+$/
IsDecimalString(chars) == chars # <<>> /\ \A k \in DOMAIN chars : IsDigit(chars[k], 10)

\* /^0x[0-9a-f]+$/
IsHexString(chars) ==
    /\ Len(chars) > 2
    /\ chars[1] = "0" /\ chars[2] = "x"
    /\ \A k \in 3..Len(chars) : IsDigit(chars[k], 16)

\* BigNumber.from(amountOrId) of ethers: the value of a hex or decimal
\* integer string and of an integer number, a thrown error for the rest
BigNumber_from(amount) ==
    IF amount.type = "string" /\ IsHexString(amount.chars)
    THEN [ok |-> TRUE, value |-> ParseDigits(SubSeq(amount.chars, 3, Len(amount.chars)), 16, 0),
          error |-> ""]
    ELSE IF IsDecimalString(amount.chars)
    THEN [ok |-> TRUE, value |-> ParseDigits(amount.chars, 10, 0), error |-> ""]
    ELSE IF amount.type = "string"
    THEN [ok |-> FALSE, value |-> 0, error |-> "invalid BigNumber string"]
    ELSE [ok |-> FALSE, value |-> 0, error |-> "underflow"]

\* a Long, kept in base 1_000_000 as hi * 1_000_000 + lo
NanosPerMilli == 1000000

Long_fromNumber(n) == [hi |-> n \div NanosPerMilli, lo |-> n % NanosPerMilli]

\* long.multiply(1_000_000) of a long below 1_000_000
Long_multiply(long, factor) ==
    IF factor = NanosPerMilli /\ long.hi = 0 THEN [hi |-> long.lo, lo |-> 0]
    ELSE [hi |-> long.hi * factor + (long.lo * factor) \div NanosPerMilli,
          lo |-> (long.lo * factor) % NanosPerMilli]

Long_lessThan(a, b) == a.hi < b.hi \/ (a.hi = b.hi /\ a.lo < b.lo)

\* JSON.stringify of a string
JSON_string(str) == "\"" \o str \o "\""

\* JSON.stringify of the funds of an execute instruction
RECURSIVE JSON_funds(_)
JSON_funds(funds) ==
    IF funds = <<>> THEN ""
    ELSE "{\"amount\":" \o JSON_string(Head(funds).amount) \o ",\"denom\":" \o
         JSON_string(Head(funds).denom) \o "}" \o
         (IF Tail(funds) = <<>> THEN "" ELSE ",") \o JSON_funds(Tail(funds))

\* JSON.stringify of the msg of a remote transfer
JSON_msg(msg) ==
    "{\"transfer_remote\":{\"dest_domain\":" \o ToString(msg.transfer_remote.dest_domain) \o
    ",\"recipient\":" \o JSON_string(msg.transfer_remote.recipient) \o
    ",\"amount\":" \o JSON_string(msg.transfer_remote.amount) \o "}}"

\* JSON.stringify(cwMemo)
JSON_stringify(cwMemo) ==
    "{\"wasm\":{\"contract\":" \o JSON_string(cwMemo.wasm.contract) \o
    ",\"msg\":" \o JSON_msg(cwMemo.wasm.msg) \o
    ",\"funds\":[" \o JSON_funds(cwMemo.wasm.funds) \o "]}}"

\* ------------------------------------------------- how a call can end
NoPayload == <<>>

\* throw new Error(message), or the rejection of the async method with it
Thrown(message) ==
    [status |-> "error", error |-> message, calls |-> <<>>, returns |-> "nothing",
     payload |-> NoPayload]

\* the value returned, after the calls of the contract that were made
Returned(returns, payload, calls) ==
    [status |-> "ok", error |-> "", calls |-> calls, returns |-> returns, payload |-> payload]

\* a call of the contract is rejected
CallRejected(calls) ==
    [status |-> "error", error |-> "call exception", calls |-> calls, returns |-> "nothing",
     payload |-> NoPayload]

\* how the contract answers the reads and the populateTransaction calls
ContractAnswers ==
    { [ok |-> TRUE, decimals |-> 18, symbol |-> "USDC", name |-> "USD Coin"],
      [ok |-> FALSE, decimals |-> 0, symbol |-> "", name |-> ""] }

\* ------------------------------------------------ EvmNativeTokenAdapter
EvmNativeTokenAdapter_getMetadata(self, answer) ==
    Thrown("Metadata not available to native tokens")

EvmNativeTokenAdapter_prepareApproveTx(self, recipient, amountOrId, answer) ==
    Thrown("Approve not required for native tokens")

\* prepareTransferTx paying the amount to the sender of the transaction
EvmNativeTokenAdapter_prepareTransferTx_NoRecipient(self, recipient, amountOrId, answer) ==
    LET value == BigNumber_from(amountOrId) IN
    IF ~value.ok THEN Thrown(value.error)
    ELSE Returned("tx", [value |-> value.value, to |-> Undefined, data |-> <<>>], <<>>)

EvmNativeTokenAdapter_prepareTransferTx(self, recipient, amountOrId, answer) ==
    LET value == BigNumber_from(amountOrId) IN
    IF ~value.ok THEN Thrown(value.error)
    ELSE Returned("tx", [value |-> value.value, to |-> recipient, data |-> <<>>], <<>>)

\* ---------------------------------------------------- EvmTokenAdapter
EvmTokenAdapter_getMetadata(self, answer) ==
    LET calls == <<"decimals", "symbol", "name">> IN
    IF ~answer.ok THEN CallRejected(calls)
    ELSE Returned("metadata",
                  [decimals |-> answer.decimals, symbol |-> answer.symbol, name |-> answer.name],
                  calls)

\* contract.populateTransaction[method](recipient, amountOrId)
PopulateTransaction(self, method, recipient, amountOrId, answer) ==
    LET calls == << "populateTransaction." \o method >> IN
    IF ~answer.ok THEN CallRejected(calls)
    ELSE IF ~BigNumber_from(amountOrId).ok THEN Thrown(BigNumber_from(amountOrId).error)
    ELSE Returned("tx",
                  [value |-> 0, to |-> self.contractAddress,
                   data |-> <<method, recipient, toString(amountOrId)>>],
                  calls)

EvmTokenAdapter_prepareApproveTx(self, recipient, amountOrId, answer) ==
    PopulateTransaction(self, "approve", recipient, amountOrId, answer)

EvmTokenAdapter_prepareTransferTx(self, recipient, amountOrId, answer) ==
    PopulateTransaction(self, "transfer", recipient, amountOrId, answer)

\* ------------------------------------------ EvmHypTokenCollateralAdapter
EvmHypTokenCollateralAdapter_getMetadata(self, answer) ==
    Thrown("Metadata not available for HypCollateral/HypNative contract.")

EvmHypTokenCollateralAdapter_prepareApproveTx(self, recipient, amountOrId, answer) ==
    Thrown("Approve not applicable to HypCollateral/HypNative contract.")

\* EvmHypTokenCollateralAdapter without the override of prepareTransferTx
EvmHypTokenCollateralAdapter_prepareTransferTx_Inherited(self, recipient, amountOrId, answer) ==
    EvmTokenAdapter_prepareTransferTx(self, recipient, amountOrId, answer)

EvmHypTokenCollateralAdapter_prepareTransferTx(self, recipient, amountOrId, answer) ==
    Thrown("Local transfer not supported for HypCollateral/HypNative contract.")

\* ------------------------------------------------ CosmNativeTokenAdapter
COSMOS_IBC_TRANSFER_TIMEOUT == 60000

\* the constructor without the check of sourceChannel
CosmNativeTokenAdapter_new_NoChannelCheck(properties) ==
    IF Falsy(properties.ibcDenom) \/ Falsy(properties.sourcePort)
    THEN Thrown("Missing properties for CosmNativeTokenAdapter")
    ELSE Returned("instance", NoPayload, <<>>)

\* new CosmNativeTokenAdapter(chainName, multiProvider, addresses, properties)
CosmNativeTokenAdapter_new(properties) ==
    IF Falsy(properties.ibcDenom) \/ Falsy(properties.sourcePort) \/
       Falsy(properties.sourceChannel)
    THEN Thrown("Missing properties for CosmNativeTokenAdapter")
    ELSE Returned("instance", NoPayload, <<>>)

CosmNativeTokenAdapter_getMetadata(self) ==
    Thrown("Metadata not available to native tokens")

CosmNativeTokenAdapter_populateApproveTx(self, transferParams) ==
    Thrown("Approve not required for native tokens")

\* the timeout taken from the time the adapter was constructed
timeoutTimestamp_FromConstruction(now) ==
    Long_multiply(Long_fromNumber(adapter.builtAt + COSMOS_IBC_TRANSFER_TIMEOUT), NanosPerMilli)

\* Long.fromNumber(new Date().getTime() + COSMOS_IBC_TRANSFER_TIMEOUT)
\*   .multiply(1_000_000), new Date().getTime() being now
timeoutTimestamp(now) ==
    Long_multiply(Long_fromNumber(now + COSMOS_IBC_TRANSFER_TIMEOUT), NanosPerMilli)

MsgTransfer(value) == [typeUrl |-> "/ibc.applications.transfer.v1.MsgTransfer", value |-> value]

\* populateTransferTx without the check of fromAccountOwner
CosmNativeTokenAdapter_populateTransferTx_NoSenderCheck(self, transferParams, memo, now) ==
    Returned("MsgTransfer",
             MsgTransfer([sourcePort |-> self.properties.sourcePort,
                          sourceChannel |-> self.properties.sourceChannel,
                          token |-> [denom |-> self.properties.ibcDenom,
                                     amount |-> toString(transferParams.weiAmountOrId)],
                          sender |-> transferParams.fromAccountOwner,
                          receiver |-> transferParams.recipient,
                          timeoutTimestamp |-> timeoutTimestamp(now),
                          memo |-> memo]),
             <<>>)

CosmNativeTokenAdapter_populateTransferTx(self, transferParams, memo, now) ==
    IF Falsy(transferParams.fromAccountOwner)
    THEN Thrown("fromAccountOwner is required for ibc transfers")
    ELSE Returned("MsgTransfer",
                  MsgTransfer([sourcePort |-> self.properties.sourcePort,
                               sourceChannel |-> self.properties.sourceChannel,
                               token |-> [denom |-> self.properties.ibcDenom,
                                          amount |-> toString(transferParams.weiAmountOrId)],
                               sender |-> transferParams.fromAccountOwner,
                               receiver |-> transferParams.recipient,
                               timeoutTimestamp |-> timeoutTimestamp(now),
                               memo |-> memo]),
                  <<>>)

\* ------------------------------------------- CosmNativeToHypTokenAdapter
\* new CosmNativeToHypTokenAdapter(...): super(chainName, multiProvider,
\* addresses, properties)
CosmNativeToHypTokenAdapter_new(properties) == CosmNativeTokenAdapter_new(properties)

\* new CwHypCollateralAdapter(intermediateChainName, multiProvider,
\*   { token: derivedIbcDenom, warpRouter: intermediateRouterAddress }, ibcDenom)
CwHypCollateralAdapter_new(self) ==
    [chainName |-> self.properties.intermediateChainName,
     token |-> self.properties.derivedIbcDenom,
     warpRouter |-> self.addresses.intermediateRouterAddress,
     gasDenom |-> self.properties.ibcDenom]

\* { ...transferParams, destination: destinationDomainId, txValue: '1' }
TransferRemoteParams(self, transferParams) ==
    [recipient |-> transferParams.recipient,
     weiAmountOrId |-> transferParams.weiAmountOrId,
     fromAccountOwner |-> transferParams.fromAccountOwner,
     destination |-> self.properties.destinationDomainId,
     txValue |-> "1"]

\* cwAdapter.populateTransferRemoteTx(params), when it resolves: the
\* execute instruction of the router contract for a remote transfer
CwHypCollateralAdapter_populateTransferRemoteTx(cwAdapter, params) ==
    [contractAddress |-> cwAdapter.warpRouter,
     msg |-> [transfer_remote |-> [dest_domain |-> params.destination,
                                   recipient |-> params.recipient,
                                   amount |-> toString(params.weiAmountOrId)]],
     funds |-> << [amount |-> params.txValue, denom |-> cwAdapter.gasDenom] >>]

cwMemo(transfer) ==
    [wasm |-> [contract |-> transfer.contractAddress, msg |-> transfer.msg,
               funds |-> transfer.funds]]

\* the parameters of the outer transfer left as the caller gave them
OuterTransferParams_UserRecipient(self, transferParams) == transferParams

\* { ...transferParams, recipient: this.addresses.intermediateRouterAddress }
OuterTransferParams(self, transferParams) ==
    [transferParams EXCEPT !.recipient = self.addresses.intermediateRouterAddress]

\* populateTransferTx from the point where the inner transfer has resolved
CosmNativeToHypTokenAdapter_populateTransferTx(self, transferParams, transfer, now) ==
    CosmNativeTokenAdapter_populateTransferTx(
        self, OuterTransferParams(self, transferParams), JSON_stringify(cwMemo(transfer)), now)

\* ------------------------------------------------- the adapters in use
EvmKinds == {"EvmNativeTokenAdapter", "EvmTokenAdapter", "EvmHypTokenCollateralAdapter"}
CosmKinds == {"CosmNativeTokenAdapter", "CosmNativeToHypTokenAdapter"}
AdapterKinds == EvmKinds \cup CosmKinds

\* the native-value adapters
NativeKinds == {"EvmNativeTokenAdapter", "CosmNativeTokenAdapter"}

NoProperties == [ibcDenom |-> Undefined, sourcePort |-> Undefined, sourceChannel |-> Undefined]
NoAddresses == [intermediateRouterAddress |-> Undefined, destinationRouterAddress |-> Undefined]

IbcProperties ==
    { [ibcDenom |-> d, sourcePort |-> p, sourceChannel |-> c] :
        d \in {"untrn", "", Undefined}, p \in {"transfer", "", Undefined},
        c \in {"channel-1", "", Undefined} }

\* the properties of a CosmNativeToHypTokenAdapter
IbcToHypProperties ==
    { [ibcDenom |-> q.ibcDenom, sourcePort |-> q.sourcePort, sourceChannel |-> q.sourceChannel,
       derivedIbcDenom |-> "ibc/untrn", intermediateChainName |-> "neutron",
       destinationDomainId |-> dest] : q \in IbcProperties, dest \in DomainIds }

IbcToHypAddresses ==
    { [intermediateRouterAddress |-> "neutron1router", destinationRouterAddress |-> "0xBb"] }

\* the arguments a constructor is called with
ConstructorArgs(kind) ==
    CASE kind = "EvmNativeTokenAdapter" ->
           { [contractAddress |-> Undefined, addresses |-> NoAddresses,
              properties |-> NoProperties] }
      [] kind \in {"EvmTokenAdapter", "EvmHypTokenCollateralAdapter"} ->
           { [contractAddress |-> a, addresses |-> NoAddresses, properties |-> NoProperties] :
               a \in Addresses }
      [] kind = "CosmNativeTokenAdapter" ->
           { [contractAddress |-> Undefined, addresses |-> NoAddresses, properties |-> q] :
               q \in IbcProperties }
      [] kind = "CosmNativeToHypTokenAdapter" ->
           { [contractAddress |-> Undefined, addresses |-> a, properties |-> q] :
               a \in IbcToHypAddresses, q \in IbcToHypProperties }

\* new <kind>(...): the constructors of the EVM adapters keep their arguments
new(kind, args) ==
    CASE kind = "CosmNativeTokenAdapter" -> CosmNativeTokenAdapter_new(args.properties)
      [] kind = "CosmNativeToHypTokenAdapter" -> CosmNativeToHypTokenAdapter_new(args.properties)
      [] OTHER -> Returned("instance", NoPayload, <<>>)

\* the method of the class of the adapter, inherited or overridden
getMetadata(self, answer) ==
    CASE self.kind = "EvmNativeTokenAdapter" -> EvmNativeTokenAdapter_getMetadata(self, answer)
      [] self.kind = "EvmTokenAdapter" -> EvmTokenAdapter_getMetadata(self, answer)
      [] self.kind = "EvmHypTokenCollateralAdapter" ->
           EvmHypTokenCollateralAdapter_getMetadata(self, answer)
      [] self.kind \in CosmKinds -> CosmNativeTokenAdapter_getMetadata(self)

prepareApproveTx(self, recipient, amountOrId, answer) ==
    CASE self.kind = "EvmNativeTokenAdapter" ->
           EvmNativeTokenAdapter_prepareApproveTx(self, recipient, amountOrId, answer)
      [] self.kind = "EvmTokenAdapter" ->
           EvmTokenAdapter_prepareApproveTx(self, recipient, amountOrId, answer)
      [] self.kind = "EvmHypTokenCollateralAdapter" ->
           EvmHypTokenCollateralAdapter_prepareApproveTx(self, recipient, amountOrId, answer)

prepareTransferTx(self, recipient, amountOrId, answer) ==
    CASE self.kind = "EvmNativeTokenAdapter" ->
           EvmNativeTokenAdapter_prepareTransferTx(self, recipient, amountOrId, answer)
      [] self.kind = "EvmTokenAdapter" ->
           EvmTokenAdapter_prepareTransferTx(self, recipient, amountOrId, answer)
      [] self.kind = "EvmHypTokenCollateralAdapter" ->
           EvmHypTokenCollateralAdapter_prepareTransferTx(self, recipient, amountOrId, answer)

\* the arguments the methods are called with
Senders == {"cosmos1sender", "", Undefined}

TransferParams ==
    [recipient : Addresses, weiAmountOrId : Amounts, fromAccountOwner : Senders]

\* (recipient, amountOrId) of the methods of the EVM adapters
EvmArgs == { p \in TransferParams : p.fromAccountOwner = Undefined }

NoArgs == [recipient |-> Undefined, weiAmountOrId |-> AmountOf("string", <<>>),
           fromAccountOwner |-> Undefined]

\* ------------------------------------------------ the adapter actions
\* number of timeout windows the clock runs over, at most
MaxTicks == 2

\* the clock goes on by half the timeout window
ClockStep == COSMOS_IBC_TRANSFER_TIMEOUT \div 2

\* the call of op with args at the time `at` has ended now in `out`
Ended(op, args, at, out) ==
    [op |-> op, args |-> args, calledAt |-> at, endedAt |-> clock,
     status |-> out.status, error |-> out.error,
     calls |-> out.calls, returns |-> out.returns, payload |-> out.payload,
     inner |-> NoArgs]

\* the result of a call that gave `params` to cwAdapter.populateTransferRemoteTx
WithInner(res, params) == [res EXCEPT !.inner = params]

AdapterInit ==
    /\ clock = 0
    /\ adapter = NoAdapter
    /\ call = NoCall
    /\ result = NoResult
    /\ contract = NoContract
    /\ fanout = NoFanout
    /\ allRouters = NoRouters
    /\ config = <<>>
    /\ pc = "start"
    /\ i = 1
    /\ tokens = <<>>
    /\ chainMeta = Unread
    /\ tokenRoutes = InstantiateMap({})
    /\ error = NoError
    /\ log = <<>>
    /\ found = NotFound

\* time passes
Tick ==
    /\ clock + ClockStep <= MaxTicks * COSMOS_IBC_TRANSFER_TIMEOUT
    /\ clock' = clock + ClockStep
    /\ UNCHANGED <<routeVars, discoveryVars, adapter, call, result>>

\* new <kind>(...): the instance with its readonly fields, or the error thrown
Construct ==
    /\ adapter = NoAdapter
    /\ \E kind \in AdapterKinds : \E args \in ConstructorArgs(kind) :
         LET out == new(kind, args) IN
         /\ result' = Ended("new", [kind |-> kind, properties |-> args.properties], clock, out)
         /\ adapter' = IF out.status = "ok"
                       THEN [kind |-> kind, contractAddress |-> args.contractAddress,
                             addresses |-> args.addresses, properties |-> args.properties,
                             builtAt |-> clock]
                       ELSE NoAdapter
    /\ UNCHANGED <<routeVars, discoveryVars, clock, call>>

\* an adapter is there and no call of it is under way
Idle == adapter # NoAdapter /\ ~call.active

\* adapter.getMetadata()
GetMetadata ==
    /\ Idle
    /\ \E answer \in ContractAnswers :
         result' = Ended("getMetadata", NoArgs, clock, getMetadata(adapter, answer))
    /\ UNCHANGED <<routeVars, discoveryVars, clock, adapter, call>>

\* adapter.prepareApproveTx(recipient, amountOrId) of an EVM adapter
PrepareApproveTx ==
    /\ Idle
    /\ adapter.kind \in EvmKinds
    /\ \E args \in EvmArgs, answer \in ContractAnswers :
         result' = Ended("prepareApproveTx", args, clock,
                         prepareApproveTx(adapter, args.recipient, args.weiAmountOrId, answer))
    /\ UNCHANGED <<routeVars, discoveryVars, clock, adapter, call>>

\* adapter.prepareTransferTx(recipient, amountOrId) of an EVM adapter
PrepareTransferTx ==
    /\ Idle
    /\ adapter.kind \in EvmKinds
    /\ \E args \in EvmArgs, answer \in ContractAnswers :
         result' = Ended("prepareTransferTx", args, clock,
                         prepareTransferTx(adapter, args.recipient, args.weiAmountOrId, answer))
    /\ UNCHANGED <<routeVars, discoveryVars, clock, adapter, call>>

\* adapter.populateApproveTx(transferParams) of a Cosmos adapter
PopulateApproveTx ==
    /\ Idle
    /\ adapter.kind \in CosmKinds
    /\ \E transferParams \in TransferParams :
         result' = Ended("populateApproveTx", transferParams, clock,
                         CosmNativeTokenAdapter_populateApproveTx(adapter, transferParams))
    /\ UNCHANGED <<routeVars, discoveryVars, clock, adapter, call>>

\* adapter.populateTransferTx(transferParams) of a CosmNativeTokenAdapter
PopulateTransferTx ==
    /\ Idle
    /\ adapter.kind = "CosmNativeTokenAdapter"
    /\ \E transferParams \in TransferParams :
         result' = Ended("populateTransferTx", transferParams, clock,
                         CosmNativeTokenAdapter_populateTransferTx(adapter, transferParams, "",
                                                                   clock))
    /\ UNCHANGED <<routeVars, discoveryVars, clock, adapter, call>>

\* adapter.populateTransferTx(transferParams) of a CosmNativeToHypTokenAdapter
\* up to the await of cwAdapter.populateTransferRemoteTx
PopulateTransferTxToHyp ==
    /\ Idle
    /\ adapter.kind = "CosmNativeToHypTokenAdapter"
    /\ \E transferParams \in TransferParams :
         call' = [active |-> TRUE, transferParams |-> transferParams, at |-> clock,
                  cwAdapter |-> CwHypCollateralAdapter_new(adapter),
                  params |-> TransferRemoteParams(adapter, transferParams)]
    /\ result' = NoResult
    /\ UNCHANGED <<routeVars, discoveryVars, clock, adapter>>

\* cwAdapter.populateTransferRemoteTx resolves: the memo, and the transfer
\* of the superclass
InnerTransferResolves ==
    /\ call.active
    /\ LET transfer == CwHypCollateralAdapter_populateTransferRemoteTx(call.cwAdapter, call.params)
       IN  result' = WithInner(Ended("populateTransferTx", call.transferParams, call.at,
                                     CosmNativeToHypTokenAdapter_populateTransferTx(
                                         adapter, call.transferParams, transfer, clock)),
                               call.params)
    /\ call' = NoCall
    /\ UNCHANGED <<routeVars, discoveryVars, clock, adapter>>

\* cwAdapter.populateTransferRemoteTx rejects, and populateTransferTx with it
InnerTransferRejects ==
    /\ call.active
    /\ result' = WithInner(Ended("populateTransferTx", call.transferParams, call.at,
                                 CallRejected(<<"populateTransferRemoteTx">>)),
                           call.params)
    /\ call' = NoCall
    /\ UNCHANGED <<routeVars, discoveryVars, clock, adapter>>

AdapterNext ==
    \/ Tick
    \/ Construct
    \/ GetMetadata
    \/ PrepareApproveTx
    \/ PrepareTransferTx
    \/ PopulateApproveTx
    \/ PopulateTransferTx
    \/ PopulateTransferTxToHyp
    \/ InnerTransferResolves
    \/ InnerTransferRejects

AdapterSpec == AdapterInit /\ [][AdapterNext]_vars

\* ------------------------------------------- properties of the adapters
\* C15: on an EvmHypTokenCollateralAdapter getMetadata, prepareApproveTx and
\* prepareTransferTx end, whatever the arguments and whatever the contract
\* would answer, in the error of the class that says the operation is not
\* there for HypCollateral/HypNative, with no call of the contract made and
\* nothing returned.
C15_CollateralRefusals ==
    adapter.kind = "EvmHypTokenCollateralAdapter" =>
        /\ result.op \in {"getMetadata", "prepareApproveTx", "prepareTransferTx"} =>
             /\ result.status = "error"
             /\ result.calls = <<>>
             /\ result.returns = "nothing"
        /\ result.op = "getMetadata" =>
             result.error = "Metadata not available for HypCollateral/HypNative contract."
        /\ result.op = "prepareApproveTx" =>
             result.error = "Approve not applicable to HypCollateral/HypNative contract."
        /\ result.op = "prepareTransferTx" =>
             result.error = "Local transfer not supported for HypCollateral/HypNative contract."

\* prepareTransferTx of an EvmHypTokenCollateralAdapter was called with an
\* amount a token contract would take
C15_Witness ==
    /\ adapter.kind = "EvmHypTokenCollateralAdapter"
    /\ result.op = "prepareTransferTx"
    /\ result.args.weiAmountOrId = AmountOf("string", <<"1", "0", "0">>)
    /\ result.status = "error"

\* getMetadata and the approve operation of a native-value adapter end in
\* the refusals for native tokens
NativeRefusals ==
    adapter.kind \in NativeKinds =>
        /\ result.op = "getMetadata" =>
             /\ result.status = "error"
             /\ result.error = "Metadata not available to native tokens"
        /\ result.op \in {"prepareApproveTx", "populateApproveTx"} =>
             /\ result.status = "error"
             /\ result.error = "Approve not required for native tokens"

IsIntegerAmount(amount) ==
    \/ IsDecimalString(amount.chars)
    \/ amount.type = "string" /\ IsHexString(amount.chars)

MissingProperty(properties) ==
    \/ properties.ibcDenom \in {Undefined, ""}
    \/ properties.sourcePort \in {Undefined, ""}
    \/ properties.sourceChannel \in {Undefined, ""}

\* C17: the constructor of a CosmNativeTokenAdapter or of a
\* CosmNativeToHypTokenAdapter throws exactly when one of ibcDenom,
\* sourcePort and sourceChannel is missing or empty, and leaves no instance
\* then; every instance there is has the three of them, also when a transfer
\* is asked of it.
C17_FailsAtConstruction ==
    /\ adapter.kind \in CosmKinds => ~MissingProperty(adapter.properties)
    /\ call.active => adapter.kind \in CosmKinds
    /\ result.op \in {"populateTransferTx", "populateApproveTx"} => adapter.kind \in CosmKinds
    /\ (result.op = "new" /\ result.args.kind \in CosmKinds) =>
          IF MissingProperty(result.args.properties)
          THEN /\ result.status = "error"
               /\ result.error = "Missing properties for CosmNativeTokenAdapter"
               /\ adapter = NoAdapter
          ELSE /\ result.status = "ok"
               /\ adapter.kind = result.args.kind
               /\ adapter.properties = result.args.properties

\* the constructor of a CosmNativeToHypTokenAdapter has thrown for an empty
\* sourceChannel, the two other properties being there
C17_Witness ==
    /\ result.op = "new"
    /\ result.args.kind = "CosmNativeToHypTokenAdapter"
    /\ result.args.properties.ibcDenom = "untrn"
    /\ result.args.properties.sourcePort = "transfer"
    /\ result.args.properties.sourceChannel = ""
    /\ result.status = "error"
    /\ adapter = NoAdapter

SenderRequired == "fromAccountOwner is required for ibc transfers"

\* C18, as claimed: populateTransferTx of a CosmNativeTokenAdapter and of a
\* CosmNativeToHypTokenAdapter called without a sender fails with the error
\* that fromAccountOwner is required, and returns no MsgTransfer.
C18_SenderRequiredError ==
    (result.op = "populateTransferTx" /\ result.args.fromAccountOwner \in {Undefined, ""}) =>
        /\ result.status = "error"
        /\ result.error = SenderRequired
        /\ result.returns = "nothing"

\* C18, amended: populateTransferTx called without a sender always fails and
\* returns no MsgTransfer; the error is the one that fromAccountOwner is
\* required on a CosmNativeTokenAdapter, and on a CosmNativeToHypTokenAdapter
\* when the inner remote transfer was built, where it is checked only then:
\* when building the inner remote transfer fails, that failure is the error.
\* Called with a sender, populateTransferTx never fails with the error that
\* fromAccountOwner is required.
C18_SenderRequiredAfterInner ==
    result.op = "populateTransferTx" =>
        IF result.args.fromAccountOwner \in {Undefined, ""}
        THEN /\ result.status = "error"
             /\ result.returns = "nothing"
             /\ result.payload = NoPayload
             /\ adapter.kind = "CosmNativeTokenAdapter" => result.error = SenderRequired
             /\ result.calls = <<>> <=> result.error = SenderRequired
             /\ result.calls # <<>> =>
                  /\ adapter.kind = "CosmNativeToHypTokenAdapter"
                  /\ result.calls = <<"populateTransferRemoteTx">>
        ELSE result.error # SenderRequired

\* populateTransferTx of a CosmNativeToHypTokenAdapter, called with an empty
\* sender, has failed with the error that fromAccountOwner is required
C18_Witness ==
    /\ adapter.kind = "CosmNativeToHypTokenAdapter"
    /\ result.op = "populateTransferTx"
    /\ result.args.fromAccountOwner = ""
    /\ result.error = SenderRequired

\* the time t in nanoseconds
Nanoseconds(t) == [hi |-> t, lo |-> 0]

\* C19: the timeoutTimestamp of a MsgTransfer returned by populateTransferTx
\* is, in nanoseconds, the time of the clock read during the call plus the
\* 60 seconds of COSMOS_IBC_TRANSFER_TIMEOUT: the clock is read at the call
\* on a CosmNativeTokenAdapter and when the inner transfer has resolved on a
\* CosmNativeToHypTokenAdapter, never at the construction, so the timeout is
\* later than the time of the call however old the adapter is.
C19_TimeoutFromCallTime ==
    (result.op = "populateTransferTx" /\ result.returns = "MsgTransfer") =>
        LET timeout == result.payload.value.timeoutTimestamp IN
        /\ adapter.builtAt <= result.calledAt
        /\ result.calledAt <= result.endedAt
        /\ adapter.kind = "CosmNativeTokenAdapter" => result.endedAt = result.calledAt
        /\ timeout = Nanoseconds(result.endedAt + 60000)
        /\ Long_lessThan(Nanoseconds(result.calledAt), timeout)
        /\ Long_lessThan(Nanoseconds(adapter.builtAt + 60000), timeout) <=>
             adapter.builtAt < result.endedAt

\* a MsgTransfer was returned by an adapter constructed more than the
\* timeout before the call
C19_Witness ==
    /\ result.op = "populateTransferTx"
    /\ result.returns = "MsgTransfer"
    /\ adapter.builtAt + 60000 < result.calledAt

\* C20: the MsgTransfer returned by populateTransferTx of a
\* CosmNativeToHypTokenAdapter has the intermediate router address as
\* receiver, the ibcDenom, sourcePort and sourceChannel of the adapter, the
\* amount and the sender of the caller, and as memo the JSON text of
\* {wasm: {contract, msg, funds}} of the inner remote transfer, which was
\* asked for the recipient of the caller, the destinationDomainId of the
\* adapter and the amount of the caller.
C20_OuterTransferAndMemo ==
    ( /\ adapter.kind = "CosmNativeToHypTokenAdapter"
      /\ result.op = "populateTransferTx"
      /\ result.status = "ok" ) =>
        LET value == result.payload.value
            transferParams == result.args
        IN  /\ result.returns = "MsgTransfer"
            /\ result.payload.typeUrl = "/ibc.applications.transfer.v1.MsgTransfer"
            /\ value.receiver = adapter.addresses.intermediateRouterAddress
            /\ value.sourcePort = adapter.properties.sourcePort
            /\ value.sourceChannel = adapter.properties.sourceChannel
            /\ value.token.denom = adapter.properties.ibcDenom
            /\ value.token.amount = toString(transferParams.weiAmountOrId)
            /\ value.sender = transferParams.fromAccountOwner
            /\ result.inner.recipient = transferParams.recipient
            /\ result.inner.destination = adapter.properties.destinationDomainId
            /\ result.inner.weiAmountOrId = transferParams.weiAmountOrId
            /\ value.memo =
                 "{\"wasm\":{\"contract\":\"" \o adapter.addresses.intermediateRouterAddress \o
                 "\",\"msg\":{\"transfer_remote\":{\"dest_domain\":" \o
                 ToString(adapter.properties.destinationDomainId) \o
                 ",\"recipient\":\"" \o transferParams.recipient \o
                 "\",\"amount\":\"" \o toString(transferParams.weiAmountOrId) \o
                 "\"}},\"funds\":[{\"amount\":\"1\",\"denom\":\"" \o
                 adapter.properties.ibcDenom \o "\"}]}}"

\* the MsgTransfer of 100 for the recipient 0xAa on the domain 102, with
\* the router as receiver and the inner transfer in its memo
C20_Witness ==
    /\ adapter.kind = "CosmNativeToHypTokenAdapter"
    /\ result.op = "populateTransferTx"
    /\ result.status = "ok"
    /\ result.args.recipient = "0xAa"
    /\ result.payload.value.receiver = "neutron1router"
    /\ result.payload.value.memo =
         "{\"wasm\":{\"contract\":\"neutron1router\",\"msg\":{\"transfer_remote\":{\"dest_domain\":102,\"recipient\":\"0xAa\",\"amount\":\"100\"}},\"funds\":[{\"amount\":\"1\",\"denom\":\"untrn\"}]}}"

\* C21: computeTokenRoutes ends without an error and returns a RoutesMap for
\* every list of tokens the discovery hands to it, also for a list with a
\* connected token on the chain of its base token.
C21_ComputeCompletes ==
    (pc \in {"published", "failed"} /\ Len(tokens) = Len(config)) =>
        /\ pc = "published"
        /\ error # PushTypeError

\* ============================================================ getAllRouters
\* what routers(domain) of the contract returns: the address in 32 bytes
Bytes32Of(tail) == [padding |-> "000000000000000000000000", tail |-> tail]

RouterBytes32 == { Bytes32Of("aa"), Bytes32Of("bb") }

\* utils.bytes32ToAddress: the last 20 bytes as an address
bytes32ToAddress(bytes32) == "0x" \o bytes32.tail

\* getRouterAddress(domain), routers(domain) having answered
getRouterAddress(routerAddressesAsBytes32) ==
    NormalizeAddress(bytes32ToAddress(routerAddressesAsBytes32))

\* what domains() can return: the domains of the lists of RouterLists
DomainLists == { [k \in DOMAIN l |-> l[k].domain] : l \in RouterLists }

RouterContracts ==
    { [domains |-> d, routers |-> r] : d \in DomainLists, r \in [DomainIds -> RouterBytes32] }

\* Promise.all handing out the values in the order the promises settled
PromiseAll_InSettledOrder(values, settled) ==
    [k \in DOMAIN settled |-> values[settled[k].index]]

\* Promise.all(promises), all of them fulfilled: the values in the order of
\* the promises
PromiseAll(values, settled) == [k \in 1..Len(settled) |-> values[k]]

\* domains.map((d, i) => ({ domain: d, address: routers[i] }))
AllRoutersEntries(domains, routers) ==
    [k \in DOMAIN domains |-> [domain |-> domains[k], address |-> routers[k]]]

\* the indices of the routers(domain) calls that have settled
Settled == { fanout.settled[j].index : j \in DOMAIN fanout.settled }

RoutersInit ==
    /\ contract \in RouterContracts
    /\ fanout = NoFanout
    /\ allRouters = NoRouters
    /\ clock = 0
    /\ adapter = NoAdapter
    /\ call = NoCall
    /\ result = NoResult
    /\ config = <<>>
    /\ pc = "start"
    /\ i = 1
    /\ tokens = <<>>
    /\ chainMeta = Unread
    /\ tokenRoutes = InstantiateMap({})
    /\ error = NoError
    /\ log = <<>>
    /\ found = NotFound

\* getAllRouters() is called: domains() is asked of the contract
GetAllRouters ==
    /\ fanout.state = "idle"
    /\ fanout' = [fanout EXCEPT !.state = "domains"]
    /\ UNCHANGED <<routeVars, adapterVars, contract, allRouters>>

\* domains() resolves: getRouterAddress(d) is called for every domain, each
\* up to its await of routers(d); Promise.all of no promise resolves at once
DomainsResolves ==
    /\ fanout.state = "domains"
    /\ fanout' = [fanout EXCEPT !.issued = contract.domains,
                                !.state = IF contract.domains = <<>> THEN "returned"
                                          ELSE "routers"]
    /\ allRouters' = IF contract.domains = <<>>
                     THEN [status |-> "ok",
                           entries |-> AllRoutersEntries(contract.domains, PromiseAll(<<>>, <<>>))]
                     ELSE allRouters
    /\ UNCHANGED <<routeVars, adapterVars, contract>>

\* domains() rejects, and getAllRouters with it
DomainsRejects ==
    /\ fanout.state = "domains"
    /\ fanout' = [fanout EXCEPT !.state = "rejected"]
    /\ allRouters' = [status |-> "error", entries |-> <<>>]
    /\ UNCHANGED <<routeVars, adapterVars, contract>>

\* routers(d) of one of the calls not yet settled resolves; when it was the
\* last one and none was rejected, Promise.all resolves and getAllRouters
\* returns
RouterResolves ==
    /\ fanout.state \in {"routers", "rejected"}
    /\ \E k \in DOMAIN fanout.issued \ Settled :
         LET routers == fanout.routers @@
                          (k :> getRouterAddress(contract.routers[fanout.issued[k]]))
             settled == Append(fanout.settled, [index |-> k, ok |-> TRUE])
             all == fanout.state = "routers" /\ DOMAIN routers = DOMAIN fanout.issued
         IN  /\ fanout' = [fanout EXCEPT !.routers = routers, !.settled = settled,
                                         !.state = IF all THEN "returned" ELSE @]
             /\ allRouters' = IF all
                              THEN [status |-> "ok",
                                    entries |-> AllRoutersEntries(fanout.issued,
                                                                  PromiseAll(routers, settled))]
                              ELSE allRouters
    /\ UNCHANGED <<routeVars, adapterVars, contract>>

\* routers(d) of one of the calls not yet settled rejects: Promise.all
\* rejects with the first rejection, and getAllRouters with it
RouterRejects ==
    /\ fanout.state \in {"routers", "rejected"}
    /\ \E k \in DOMAIN fanout.issued \ Settled :
         fanout' = [fanout EXCEPT !.settled = Append(@, [index |-> k, ok |-> FALSE]),
                                  !.state = "rejected"]
    /\ allRouters' = [status |-> "error", entries |-> <<>>]
    /\ UNCHANGED <<routeVars, adapterVars, contract>>

RoutersNext ==
    \/ GetAllRouters
    \/ DomainsResolves
    \/ DomainsRejects
    \/ RouterResolves
    \/ RouterRejects

RoutersSpec == RoutersInit /\ [][RoutersNext]_vars

\* the address the contract holds for a domain, as getRouterAddress returns it
ResolvedFor(domain) == NormalizeAddress("0x" \o contract.routers[domain].tail)

\* C22: getAllRouters issues the address resolutions of all the domains of
\* getDomains together; in whatever order they complete it returns one entry
\* per domain, in the order of getDomains, each with the address resolved for
\* that domain; when one resolution fails the call fails without an entry.
C22_FanOutFanIn ==
    /\ fanout.state \in {"routers", "returned"} => fanout.issued = contract.domains
    /\ fanout.state = "routers" =>
         /\ allRouters = NoRouters
         /\ \A j \in DOMAIN fanout.settled : fanout.settled[j].ok
    /\ allRouters.status = "ok" =>
         /\ fanout.state = "returned"
         /\ Settled = DOMAIN contract.domains
         /\ \A j \in DOMAIN fanout.settled : fanout.settled[j].ok
         /\ Len(allRouters.entries) = Len(contract.domains)
         /\ \A k \in DOMAIN contract.domains :
              /\ allRouters.entries[k].domain = contract.domains[k]
              /\ allRouters.entries[k].address = ResolvedFor(contract.domains[k])
    /\ (\E j \in DOMAIN fanout.settled : ~fanout.settled[j].ok) =>
         /\ fanout.state = "rejected"
         /\ allRouters = [status |-> "error", entries |-> <<>>]

\* two resolutions with different addresses, the second completed first
C22_Witness ==
    /\ allRouters.status = "ok"
    /\ Len(contract.domains) = 2
    /\ fanout.settled[1].index = 2
    /\ allRouters.entries[1].address # allRouters.entries[2].address

\* one resolution failed after another one had completed
C22_WitnessRejected ==
    /\ allRouters.status = "error"
    /\ Len(fanout.settled) = 2
    /\ fanout.settled[1].ok
    /\ ~fanout.settled[2].ok

====
